---- MODULE Spec2Model ----
(***************************************************************************)
(* A model of the chat controller of src/App.jsx (component ChatApp):      *)
(* startup (login, keyword load, initial history fetch), the polling       *)
(* loop, the history merge (processMessages), read confirmation            *)
(* (markAsRead), text sends (handleSendMessage) and image sends            *)
(* (handleImageUpload).                                                    *)
(*                                                                         *)
(* Every asynchronous handler is split at its awaits: one action for the   *)
(* synchronous part up to the network call, one action for the             *)
(* continuation that runs when the call resolves or rejects.  React state  *)
(* written with setX(...) is modelled as written at the end of the step    *)
(* that calls it; values a closure captured at render time (isFirstLoad)   *)
(* are carried by the request that the closure issued.                     *)
(*                                                                         *)
(* State that no handler reads and that causes no render of the chat (the  *)
(* keywords, the auth token, DOM scroll offsets) is left out.              *)
(***************************************************************************)
EXTENDS Integers, Sequences, FiniteSets

(***************************************************************************)
(* Bounds of the model.                                                    *)
(***************************************************************************)
\* longest history batch the backend returns
MaxBatch == 2
\* history requests in flight at once
MaxFetch == 2
\* optimistic messages created in one session
MaxLocal == 2
\* milliseconds the clock can advance
MaxClock == 3

(***************************************************************************)
(* Program constants.                                                      *)
(***************************************************************************)
\* msgStatus: undefined (confirmed)
NoStatus == 0
\* msgStatus: 1 (pending send)
Pending == 1
\* msgStatus: 2 (failed)
Failed == 2

VARIABLES
  messages,      \* useState messages: the display list
  greetings,     \* useState greetings
  unreadCount,   \* useState unreadCount
  lastUnreadId,  \* lastUnreadIdRef.current: the low-water-mark id
  isFirstLoad,   \* useState isFirstLoad
  loading,       \* useState loading
  polling,       \* pollingIntervalRef.current is set and not cleared
  pollFirstLoad, \* isFirstLoad as captured by the interval's loadMessages
  initPc,        \* position of init(): "login", "keywords", "history", "done"
  inputValue,    \* useState inputValue
  sending,       \* useState sending
  toast,         \* useState toast
  now,           \* Date.now(), in milliseconds since the session started
  fetches,       \* history requests in flight, in order of issue
  reads,         \* ids of chat-read requests in flight
  sends,         \* send-chat requests in flight
  uploads,       \* image flows waiting for the signature or the upload, with the time of the request

  previews,      \* image flows whose URL.createObjectURL preview is not revoked yet
  origin,        \* history: origin[i] is the send that created messages[i], 0 for a server message
  nextUid,       \* history: number of the next optimistic message
  fetchDone,     \* history: at least one history fetch has completed
  observers,     \* the IntersectionObservers of the rendered Messages: live when
                 \* connected; history: fired, the message was notified visible
                 \* since it is shown unread
  showScrollButton, \* useState showScrollButton
  lastOp         \* history: what the last step did

vars == <<messages, greetings, unreadCount, lastUnreadId, isFirstLoad, loading,
          polling, pollFirstLoad, initPc, inputValue, sending, toast, now,
          fetches, reads, sends, uploads, previews, origin, nextUid, fetchDone,
          observers, showScrollButton, lastOp>>

(***************************************************************************)
(* Data.                                                                   *)
(***************************************************************************)
\* the flags of a message as the history endpoint returns it
ServerFlags == [is_reply : BOOLEAN, is_view : BOOLEAN]

\* the history batches (the fields the controller reads): a history of n
\* messages holds the ids 4 .. n+3 and comes newest first
Batches ==
  UNION { { [i \in 1..n |-> [id |-> n + 4 - i, is_reply |-> f[i].is_reply,
                              is_view |-> f[i].is_view]] :
            f \in [1..n -> ServerFlags] } : n \in 0..MaxBatch }

\* the greeting lists of an object-form response
GreetingLists == { <<>>, <<[id |-> 1, is_reply |-> FALSE, is_view |-> FALSE]>> }

\* what the user can have typed: "", " " and " a"
Contents == { <<>>, <<" ">>, <<" ", "a">> }

\* distances from the bottom of the scroll region, in px, around the 80 px threshold
Distances == { 79, 80, 81 }

\* String.prototype.trim on a sequence of characters
RECURSIVE TrimLeft(_)
TrimLeft(s) ==
  IF s = <<>> THEN <<>>
  ELSE IF Head(s) = " " THEN TrimLeft(Tail(s)) ELSE s

RECURSIVE TrimRight(_)
TrimRight(s) ==
  IF s = <<>> THEN <<>>
  ELSE IF s[Len(s)] = " " THEN TrimRight(SubSeq(s, 1, Len(s) - 1)) ELSE s

\* the content taken as typed, without trim()
Untrimmed(s) == s

Trim(s) == TrimRight(TrimLeft(s))

\* msgStatus of a message; a message without the field has it undefined
Status(m) == IF "msgStatus" \in DOMAIN m THEN m.msgStatus ELSE NoStatus

\* { ...m, [field]: value }
Spread(m, field, value) ==
  [f \in (DOMAIN m) \cup {field} |-> IF f = field THEN value ELSE m[f]]

\* Date.now() of the current millisecond, as a message id
TempId == 1000 + now

\* no toast shown
NoToast == [show |-> FALSE, message |-> ""]

\* showToast(message)
ShowToast(message) == [show |-> TRUE, message |-> message]

\* array.push(x) where the code has unshift
Push(s, x) == Append(s, x)

\* array.unshift(x)
Unshift(s, x) == <<x>> \o s

(***************************************************************************)
(* processMessages: the loop over the fetched batch.  Loop(msgs, i, acc)   *)
(* is the state of (processed, unread, lastUnread) after iterations        *)
(* i .. msgs.length-1, started from acc; indices are 1-based here, so the  *)
(* code's i === 0 is i = 1.                                                *)
(***************************************************************************)
RECURSIVE ProcessLoop(_, _, _)
ProcessLoop(msgs, i, acc) ==
  IF i > Len(msgs) THEN acc
  ELSE
    LET msg == msgs[i]
        unread == IF ~msg.is_view THEN acc.unread + 1 ELSE acc.unread
        lastUnread == IF ~msg.is_view /\ i = 1 /\ ~msg.is_reply
                      THEN msg.id ELSE acc.lastUnread
    IN ProcessLoop(msgs, i + 1,
         [processed |-> Unshift(acc.processed, msg),
          unread |-> unread, lastUnread |-> lastUnread])

\* processMessages counting on from the unread count shown so far
ProcessMessagesAccumulating(msgs) ==
  ProcessLoop(msgs, 1,
    [processed |-> <<>>, unread |-> unreadCount, lastUnread |-> 0])

ProcessMessages(msgs) ==
  ProcessLoop(msgs, 1, [processed |-> <<>>, unread |-> 0, lastUnread |-> 0])

(***************************************************************************)
(* Small helpers of the handlers.                                          *)
(***************************************************************************)
\* prev.map(m => m.id === id ? { ...m, msgStatus: status } : m)
MapStatus(msgs, id, status) ==
  [i \in 1..Len(msgs) |->
     IF msgs[i].id = id THEN Spread(msgs[i], "msgStatus", status) ELSE msgs[i]]

\* prev.map(m => m.id === id ? { ...m, image_url: url, msgStatus: undefined } : m)
MapUploaded(msgs, id, url) ==
  [i \in 1..Len(msgs) |->
     IF msgs[i].id = id
     THEN Spread(Spread(msgs[i], "image_url", url), "msgStatus", NoStatus)
     ELSE msgs[i]]

\* the tempMessage of handleSendMessage and handleImageUpload
TempMessage(content, imageUrl) ==
  [id |-> TempId, content |-> content, image_url |-> imageUrl,
   is_reply |-> FALSE, is_view |-> TRUE, msgStatus |-> Pending]

\* greeting.map(g => ({ ...g, is_reply: true, is_view: true }))
MapGreeting(greeting) ==
  [i \in 1..Len(greeting) |->
     Spread(Spread(greeting[i], "is_reply", TRUE), "is_view", TRUE)]

\* the request loadMessages issues: api.getChatHistory(!isFirstLoad), with the
\* isFirstLoad of the render whose closure makes the call
\* (history: overtaken, the response of a request issued later has already been
\* merged)
HistoryRequest(isInitial, capturedFirstLoad) ==
  [isInitial |-> isInitial, isGreeting |-> ~capturedFirstLoad,
   firstLoad |-> capturedFirstLoad, completedBefore |-> fetchDone,
   overtaken |-> FALSE]

\* s without its i-th element
RemoveAt(s, i) == SubSeq(s, 1, i - 1) \o SubSeq(s, i + 1, Len(s))

\* the requests left in flight when the response of the i-th is merged: the
\* ones issued before it are overtaken
Overtake(s, i) ==
  [j \in 1..(Len(s) - 1) |->
     IF j < i THEN [s[j] EXCEPT !.overtaken = TRUE] ELSE s[j + 1]]

\* optimistic messages the image flows in flight will still create
Reserved == Cardinality(uploads)

(***************************************************************************)
(* Rendering.  markAsRead is a new function in every render of ChatApp, so  *)
(* every render changes the onVisible prop of each Message and re-runs its  *)
(* effect: the old observer is disconnected and, if !message.is_view, a new *)
(* one is connected.  The chat is rendered once loading is false, which     *)
(* holds after every step that sets state outside init().                   *)
(***************************************************************************)
\* the observers after a render of the list msgs
Observed(msgs, obs) ==
  { [id |-> msgs[i].id, live |-> TRUE,
     fired |-> \E o \in obs : o.id = msgs[i].id /\ o.fired] :
    i \in { k \in DOMAIN msgs : ~msgs[k].is_view } }

\* a step that sets React state: ChatApp renders again, showing msgs
Render(msgs) == observers' = Observed(msgs, observers)

(***************************************************************************)
(* Init: the component is mounted, init() has called api.login.            *)
(***************************************************************************)
Init ==
  /\ messages = <<>>
  /\ greetings = <<>>
  /\ unreadCount = 0
  /\ lastUnreadId = 0
  /\ isFirstLoad = TRUE
  /\ loading = TRUE
  /\ polling = FALSE
  /\ pollFirstLoad = TRUE
  /\ initPc = "login"
  /\ inputValue = <<>>
  /\ sending = FALSE
  /\ toast = NoToast
  /\ now = 0
  /\ fetches = <<>>
  /\ reads = {}
  /\ sends = {}
  /\ uploads = {}
  /\ previews = {}
  /\ origin = <<>>
  /\ nextUid = 1
  /\ fetchDone = FALSE
  /\ observers = {}
  /\ showScrollButton = FALSE
  /\ lastOp = [kind |-> "mount"]

(***************************************************************************)
(* Startup: init() of the mount effect, and the polling effect.            *)
(***************************************************************************)
\* finally { setLoading(false) } of init, then the effect on [loading] that
\* starts the interval; its callback keeps the loadMessages of this render
FinishInit(firstLoadNow) ==
  /\ initPc' = "done"
  /\ loading' = FALSE
  /\ polling' = TRUE
  /\ pollFirstLoad' = firstLoadNow

\* the catch of init without its finally: the loading flag is never cleared
InitFailedKeepsLoading ==
  /\ toast' = ShowToast("Request failed")
  /\ initPc' = "done"
  /\ lastOp' = [kind |-> "initFail", toasts |-> 1]
  /\ UNCHANGED <<messages, greetings, unreadCount, lastUnreadId, isFirstLoad,
                 loading, polling, pollFirstLoad, inputValue, sending, now,
                 fetches, reads, sends, uploads,
                 previews, origin, nextUid, fetchDone,
                 observers, showScrollButton>>

\* catch (error) { showToast(error.message) } and finally of init
InitFailed ==
  /\ toast' = ShowToast("Request failed")
  /\ FinishInit(isFirstLoad)
  /\ Render(messages)
  /\ lastOp' = [kind |-> "initFail", toasts |-> 1]
  /\ UNCHANGED <<messages, greetings, unreadCount, lastUnreadId, isFirstLoad,
                 inputValue, sending, now, fetches, reads, sends, uploads,
                 previews,
                 origin, nextUid, fetchDone,
                 showScrollButton>>

\* api.login resolves or rejects
LoginResponse(ok) ==
  /\ initPc = "login"
  /\ IF ok
     THEN /\ initPc' = "keywords"
          /\ lastOp' = [kind |-> "other"]
          /\ UNCHANGED <<messages, greetings, unreadCount, lastUnreadId,
                         isFirstLoad, loading, polling, pollFirstLoad,
                         inputValue, sending, toast, now, fetches, reads, sends,
                         uploads, previews, origin, nextUid, fetchDone,
                 observers, showScrollButton>>
     ELSE InitFailed

\* api.getKeywords resolves or rejects; on success init calls loadMessages(true)
KeywordsResponse(ok) ==
  /\ initPc = "keywords"
  /\ IF ok
     THEN /\ initPc' = "history"
          /\ fetches' = Append(fetches, HistoryRequest(TRUE, isFirstLoad))
          /\ lastOp' = [kind |-> "other"]
          /\ UNCHANGED <<messages, greetings, unreadCount, lastUnreadId,
                         isFirstLoad, loading, polling, pollFirstLoad,
                         inputValue, sending, toast, now, reads, sends, uploads,
                         previews,
                         origin, nextUid, fetchDone,
                 observers, showScrollButton>>
     ELSE InitFailed

\* the interval fires: loadMessages(false); at most maxInFlight requests are
\* followed at once
PollTickOf(maxInFlight) ==
  /\ polling
  /\ Len(fetches) < maxInFlight
  /\ fetches' = Append(fetches, HistoryRequest(FALSE, pollFirstLoad))
  /\ lastOp' = [kind |-> "other"]
  /\ UNCHANGED <<messages, greetings, unreadCount, lastUnreadId, isFirstLoad,
                 loading, polling, pollFirstLoad, initPc, inputValue, sending,
                 toast, now, reads, sends, uploads,
                 previews, origin, nextUid, fetchDone,
                 observers, showScrollButton>>

PollTick == PollTickOf(MaxFetch)

(***************************************************************************)
(* loadMessages after api.getChatHistory settles.  data is the flat list,  *)
(* or the object {greeting, list}.                                         *)
(***************************************************************************)
\* what follows loadMessages(true) in init: the finally and the polling effect
AfterLoad(f, firstLoadNow) ==
  IF f.isInitial
  THEN FinishInit(firstLoadNow)
  ELSE UNCHANGED <<initPc, loading, polling, pollFirstLoad>>

\* a loadMessages that stores the greeting of every object-form response
StoresGreetingAlways(isInitial, isArray, greeting) ==
  ~isArray /\ Len(greeting) > 0

\* !Array.isArray(data), then if (greeting.length && isInitial)
StoresGreeting(isInitial, isArray, greeting) ==
  ~isArray /\ Len(greeting) > 0 /\ isInitial

\* loadMessages that drops the response of a request when the response of a
\* later request has already been merged
FetchOkInRequestOrder(i, isArray, greeting, list) ==
  \E f \in {fetches[i]} : \E r \in {ProcessMessages(list)} :
  /\ fetches' = Overtake(fetches, i)
  /\ greetings' = IF StoresGreeting(f.isInitial, isArray, greeting)
                  THEN MapGreeting(greeting) ELSE greetings
  /\ lastUnreadId' = IF f.overtaken THEN lastUnreadId ELSE r.lastUnread
  /\ messages' = IF f.overtaken THEN messages ELSE r.processed
  /\ origin' = IF f.overtaken THEN origin ELSE [k \in 1..Len(r.processed) |-> 0]
  /\ unreadCount' = IF f.overtaken THEN unreadCount ELSE r.unread
  /\ isFirstLoad' = IF f.isInitial THEN FALSE ELSE isFirstLoad
  /\ AfterLoad(f, isFirstLoad')
  /\ fetchDone' = TRUE
  /\ Render(IF f.overtaken THEN messages ELSE r.processed)
  /\ lastOp' = [kind |-> "merge", batch |-> list, initial |-> f.isInitial,
                scrolled |-> (f.firstLoad /\ r.unread = 0),
                late |-> f.overtaken,
                greeting |-> IF isArray THEN 0 ELSE Len(greeting)]
  /\ UNCHANGED <<inputValue, sending, toast, now, reads, sends, uploads,
                 previews, nextUid,
                 showScrollButton>>

\* loadMessages after api.getChatHistory resolved with the flat list (isArray)
\* or with { greeting, list }; late: the response of a request issued later
\* was merged before this one; greeting: the number of greeting entries of
\* the response
FetchOk(i, isArray, greeting, list) ==
  \E f \in {fetches[i]} : \E r \in {ProcessMessages(list)} :
  /\ fetches' = Overtake(fetches, i)
  /\ greetings' = IF StoresGreeting(f.isInitial, isArray, greeting)
                  THEN MapGreeting(greeting) ELSE greetings
  /\ lastUnreadId' = r.lastUnread
  /\ messages' = r.processed
  /\ origin' = [k \in 1..Len(r.processed) |-> 0]
  /\ unreadCount' = r.unread
  /\ isFirstLoad' = IF f.isInitial THEN FALSE ELSE isFirstLoad
  /\ AfterLoad(f, isFirstLoad')
  /\ fetchDone' = TRUE
  /\ Render(r.processed)
  /\ lastOp' = [kind |-> "merge", batch |-> list, initial |-> f.isInitial,
                scrolled |-> (f.firstLoad /\ r.unread = 0),
                late |-> f.overtaken,
                greeting |-> IF isArray THEN 0 ELSE Len(greeting)]
  /\ UNCHANGED <<inputValue, sending, toast, now, reads, sends, uploads,
                 previews, nextUid,
                 showScrollButton>>

\* loadMessages whose catch raises a toast, as the catch of init does
FetchFailToasts(i) ==
  LET f == fetches[i] IN
  /\ fetches' = RemoveAt(fetches, i)
  /\ AfterLoad(f, isFirstLoad)
  /\ fetchDone' = TRUE
  /\ Render(messages)
  /\ toast' = ShowToast("Request failed")
  /\ lastOp' = [kind |-> "fetchFail", again |-> lastOp.kind = "fetchFail"]
  /\ UNCHANGED <<messages, greetings, unreadCount, lastUnreadId, isFirstLoad,
                 inputValue, sending, now, reads, sends, uploads,
                 previews, origin,
                 nextUid,
                 showScrollButton>>

\* catch (error) { console.error(...) } of loadMessages; again: the step before
\* was a failed fetch too
FetchFail(i) ==
  LET f == fetches[i] IN
  /\ fetches' = RemoveAt(fetches, i)
  /\ AfterLoad(f, isFirstLoad)
  /\ fetchDone' = TRUE
  /\ IF f.isInitial THEN Render(messages) ELSE UNCHANGED observers
  /\ lastOp' = [kind |-> "fetchFail", again |-> lastOp.kind = "fetchFail"]
  /\ UNCHANGED <<messages, greetings, unreadCount, lastUnreadId, isFirstLoad,
                 inputValue, sending, toast, now, reads, sends, uploads,
                 previews, origin,
                 nextUid,
                 showScrollButton>>

\* api.getChatHistory settles with a response whose message list is in batches
FetchResponseOf(batches, greetingLists) ==
  \E i \in DOMAIN fetches :
    \/ \E list \in batches : FetchOk(i, TRUE, <<>>, list)
    \/ \E greeting \in greetingLists : \E list \in batches :
         FetchOk(i, FALSE, greeting, list)
    \/ FetchFail(i)

FetchResponse == FetchResponseOf(Batches, GreetingLists)

(***************************************************************************)
(* Read tracking: markAsRead, the Message visibility observer and          *)
(* handleScroll.                                                           *)
(***************************************************************************)
\* what markAsRead, up to its await, leaves alone
ReadFrame ==
  UNCHANGED <<messages, greetings, unreadCount, lastUnreadId, isFirstLoad,
              loading, polling, pollFirstLoad, initPc, inputValue, sending,
              toast, now, fetches, sends, uploads,
              previews, origin, nextUid, fetchDone>>

\* markAsRead(id) up to its await: returns at once for a falsy id
MarkAsRead(id) ==
  /\ reads' = IF id = 0 THEN reads ELSE reads \cup {id}
  /\ ReadFrame

\* the IntersectionObserver of a rendered Message with !message.is_view fires:
\* onVisible(message.id)
OnVisible ==
  /\ ~loading
  /\ \E i \in DOMAIN messages : \E o \in observers :
       /\ o.id = messages[i].id
       /\ o.live
       /\ observers' = (observers \ {o}) \cup
                          {[id |-> o.id, live |-> FALSE, fired |-> TRUE]}
       /\ MarkAsRead(messages[i].id)
       /\ lastOp' = [kind |-> "visible", is_reply |-> messages[i].is_reply,
                     is_view |-> messages[i].is_view, again |-> o.fired]
       /\ UNCHANGED showScrollButton

\* handleScroll, distance px from the bottom
HandleScroll ==
  /\ ~loading
  /\ \E distance \in Distances :
       /\ showScrollButton' = (distance > 80)
       /\ IF showScrollButton' # showScrollButton
          THEN Render(messages) ELSE UNCHANGED observers
       /\ IF distance < 80 /\ lastUnreadId # 0
          THEN MarkAsRead(lastUnreadId)
          ELSE ReadFrame /\ UNCHANGED reads
       /\ lastOp' = [kind |-> "other"]

\* markAsRead that clears the unread count but leaves the low-water-mark set
ReadResponseKeepsLast(id, ok) ==
  /\ id \in reads
  /\ reads' = reads \ {id}
  /\ unreadCount' = IF ok THEN 0 ELSE unreadCount
  /\ IF unreadCount' # unreadCount
     THEN Render(messages) ELSE UNCHANGED observers
  /\ lastOp' = IF ok
                THEN [kind |-> "readOk",
                      other |-> (lastUnreadId # 0 /\ id # lastUnreadId)]
                ELSE [kind |-> "readFail"]
  /\ UNCHANGED <<messages, greetings, lastUnreadId, isFirstLoad, loading,
                 polling, pollFirstLoad, initPc, inputValue, sending, toast, now,
                 fetches, sends, uploads, previews, origin, nextUid, fetchDone,
                 showScrollButton>>

\* markAsRead that clears the unread state only for the low-water-mark id
ReadResponseOnlyLast(id, ok) ==
  /\ id \in reads
  /\ reads' = reads \ {id}
  /\ unreadCount' = IF ok /\ id = lastUnreadId THEN 0 ELSE unreadCount
  /\ IF unreadCount' # unreadCount
     THEN Render(messages) ELSE UNCHANGED observers
  /\ lastUnreadId' = IF ok /\ id = lastUnreadId THEN 0 ELSE lastUnreadId
  /\ lastOp' = IF ok
                THEN [kind |-> "readOk",
                      other |-> (lastUnreadId # 0 /\ id # lastUnreadId)]
                ELSE [kind |-> "readFail"]
  /\ UNCHANGED <<messages, greetings, isFirstLoad, loading, polling,
                 pollFirstLoad, initPc, inputValue, sending, toast, now, fetches,
                 sends, uploads, previews, origin, nextUid, fetchDone,
                 showScrollButton>>

\* api.markAsRead(id) resolves or rejects
ReadResponse(id, ok) ==
  /\ id \in reads
  /\ reads' = reads \ {id}
  /\ unreadCount' = IF ok THEN 0 ELSE unreadCount
  /\ IF unreadCount' # unreadCount
     THEN Render(messages) ELSE UNCHANGED observers
  /\ lastUnreadId' = IF ok THEN 0 ELSE lastUnreadId
  /\ lastOp' = IF ok
                THEN [kind |-> "readOk",
                      other |-> (lastUnreadId # 0 /\ id # lastUnreadId)]
                ELSE [kind |-> "readFail"]
  /\ UNCHANGED <<messages, greetings, isFirstLoad, loading, polling,
                 pollFirstLoad, initPc, inputValue, sending, toast, now, fetches,
                 sends, uploads, previews, origin, nextUid, fetchDone,
                 showScrollButton>>

(***************************************************************************)
(* Text sends: handleSendMessage.                                          *)
(***************************************************************************)
\* the textarea's onChange
SetInput ==
  /\ ~loading
  /\ \E c \in Contents : inputValue' = c
  /\ IF inputValue' # inputValue THEN Render(messages) ELSE UNCHANGED observers
  /\ lastOp' = [kind |-> "other"]
  /\ UNCHANGED <<messages, greetings, unreadCount, lastUnreadId, isFirstLoad,
                 loading, polling, pollFirstLoad, initPc, sending, toast, now,
                 fetches, reads, sends, uploads,
                 previews, origin, nextUid, fetchDone,
                 showScrollButton>>

\* Enter in the textarea (or the send button): handleSendMessage(inputValue),
\* up to its await
SendText ==
  /\ ~loading
  /\ IF Trim(inputValue) = <<>>
     THEN /\ lastOp' = [kind |-> "sendNothing"]
          /\ UNCHANGED observers
          /\ UNCHANGED <<messages, inputValue, sending, sends, origin, nextUid>>
     ELSE /\ nextUid + Reserved <= MaxLocal
          /\ now < MaxClock
          /\ messages' = Append(messages, TempMessage(Trim(inputValue), ""))
          /\ origin' = Append(origin, nextUid)
          /\ inputValue' = <<>>
          /\ sending' = TRUE
          /\ sends' = sends \cup {[uid |-> nextUid, id |-> TempId, img |-> 0]}
          /\ nextUid' = nextUid + 1
          /\ lastOp' = [kind |-> "send"]
          /\ Render(messages')
  /\ UNCHANGED <<greetings, unreadCount, lastUnreadId, isFirstLoad, loading,
                 polling, pollFirstLoad, initPc, toast, now, fetches, reads,
                 uploads, previews, fetchDone,
                 showScrollButton>>

\* api.sendMessage resolves or rejects, at least a millisecond after the
\* request was made (s.id is the Date.now() of the request): the rest of
\* handleSendMessage, and, when handleImageUpload awaited it (s.img # 0), the
\* finally of handleImageUpload: URL.revokeObjectURL(previewUrl)
SendResponse(s, ok) ==
  /\ s \in sends
  /\ TempId > s.id
  /\ sends' = sends \ {s}
  /\ previews' = previews \ {s.img}
  /\ messages' = MapStatus(messages, s.id, IF ok THEN NoStatus ELSE Failed)
  /\ toast' = IF ok THEN toast ELSE ShowToast("Request failed")
  /\ sending' = FALSE
  /\ Render(messages')
  /\ lastOp' = [kind |-> IF ok THEN "sendOk" ELSE "sendFail", uid |-> s.uid,
                img |-> s.img, toasts |-> IF ok THEN 0 ELSE 1,
                revoked |-> s.img # 0]
  /\ UNCHANGED <<greetings, unreadCount, lastUnreadId, isFirstLoad, loading,
                 polling, pollFirstLoad, initPc, inputValue, now, fetches, reads,
                 uploads, origin, nextUid, fetchDone,
                 showScrollButton>>

(***************************************************************************)
(* Image sends: handleImageUpload.                                         *)
(***************************************************************************)
\* const MAX_SIZE = 2 * 1024 * 1024
MAX_SIZE == 2097152

\* sizes of the chosen file, around the limit
FileSizes == { MAX_SIZE - 1, MAX_SIZE, MAX_SIZE + 1 }

\* e.target.files?.[0]: a file, or none when the selection is empty
Files ==
  [present : {TRUE}, size : FileSizes] \cup {[present |-> FALSE, size |-> 0]}

\* a size check that also rejects a file of exactly MAX_SIZE bytes
TooLargeInclusive(file) == file.size >= MAX_SIZE

\* if (file.size > MAX_SIZE)
TooLarge(file) == file.size > MAX_SIZE

\* the file input's onChange: handleImageUpload(file) up to its first await
HandleImageUpload ==
  /\ ~loading
  /\ \E file \in Files :
       IF ~file.present
       THEN /\ lastOp' = [kind |-> "other"]
            /\ UNCHANGED observers
            /\ UNCHANGED <<messages, uploads, previews, origin, nextUid, toast>>
       ELSE IF TooLarge(file)
       THEN /\ toast' = ShowToast("Image size must be less than 2MB")
            /\ lastOp' = [kind |-> "imageRejected", size |-> file.size,
                          toasts |-> 1]
            /\ Render(messages)
            /\ UNCHANGED <<messages, uploads, previews, origin, nextUid>>
       ELSE /\ nextUid + Reserved + 1 <= MaxLocal
            /\ now < MaxClock
            /\ previews' = previews \cup {nextUid}
            /\ messages' = Append(messages, TempMessage(<<>>, "blob"))
            /\ origin' = Append(origin, nextUid)
            /\ uploads' = uploads \cup
                 {[uid |-> nextUid, id |-> TempId, stage |-> "sign", at |-> now]}
            /\ nextUid' = nextUid + 1
            /\ lastOp' = [kind |-> "image", size |-> file.size]
            /\ Render(messages')
            /\ UNCHANGED toast
  /\ UNCHANGED <<greetings, unreadCount, lastUnreadId, isFirstLoad, loading,
                 polling, pollFirstLoad, initPc, inputValue, sending, now,
                 fetches, reads, sends, fetchDone,
                 showScrollButton>>

\* the catch of handleImageUpload without its finally: the preview URL is
\* never revoked
ImageFailedLeaks(u, step) ==
  /\ uploads' = uploads \ {u}
  /\ messages' = MapStatus(messages, u.id, Failed)
  /\ Render(messages')
  /\ toast' = ShowToast(IF step = "upload" THEN "Upload failed" ELSE "Request failed")
  /\ lastOp' = [kind |-> "imageFail", uid |-> u.uid, step |-> step,
                toasts |-> 1, revoked |-> FALSE]
  /\ UNCHANGED <<greetings, unreadCount, lastUnreadId, isFirstLoad, loading,
                 polling, pollFirstLoad, initPc, inputValue, sending, now,
                 fetches, reads, sends, previews, origin, nextUid, fetchDone,
                 showScrollButton>>

\* catch and finally of handleImageUpload
ImageFailed(u, step) ==
  /\ uploads' = uploads \ {u}
  /\ previews' = previews \ {u.uid}
  /\ messages' = MapStatus(messages, u.id, Failed)
  /\ Render(messages')
  /\ toast' = ShowToast(IF step = "upload" THEN "Upload failed" ELSE "Request failed")
  /\ lastOp' = [kind |-> "imageFail", uid |-> u.uid, step |-> step,
                toasts |-> 1, revoked |-> TRUE]
  /\ UNCHANGED <<greetings, unreadCount, lastUnreadId, isFirstLoad, loading,
                 polling, pollFirstLoad, initPc, inputValue, sending, now,
                 fetches, reads, sends, origin, nextUid, fetchDone,
                 showScrollButton>>

\* api.getOSSSignature resolves or rejects, at least a millisecond after the
\* request
SignResponse(u, ok) ==
  /\ u \in uploads
  /\ u.stage = "sign"
  /\ now > u.at
  /\ IF ok
     THEN /\ now < MaxClock
          /\ uploads' = (uploads \ {u}) \cup {[u EXCEPT !.stage = "upload", !.at = now]}
          /\ lastOp' = [kind |-> "other"]
          /\ UNCHANGED <<messages, greetings, unreadCount, lastUnreadId,
                         isFirstLoad, loading, polling, pollFirstLoad, initPc,
                         inputValue, sending, toast, now, fetches, reads, sends,
                         previews, origin, nextUid, fetchDone,
                 observers, showScrollButton>>
     ELSE ImageFailed(u, "sign")

\* api.uploadToOSS resolves or rejects, at least a millisecond after the
\* request; on success the optimistic message gets
\* the permanent url and handleSendMessage('', url) runs up to its await
UploadResponse(u, ok) ==
  /\ u \in uploads
  /\ u.stage = "upload"
  /\ now > u.at
  /\ IF ok
     THEN /\ now < MaxClock
          /\ uploads' = uploads \ {u}
          /\ messages' = Append(MapUploaded(messages, u.id, "url"),
                                TempMessage(Trim(<<>>), "url"))
          /\ origin' = Append(origin, nextUid)
          /\ inputValue' = <<>>
          /\ sending' = TRUE
          /\ sends' = sends \cup {[uid |-> nextUid, id |-> TempId, img |-> u.uid]}
          /\ nextUid' = nextUid + 1
          /\ lastOp' = [kind |-> "uploaded"]
          /\ Render(messages')
          /\ UNCHANGED <<greetings, unreadCount, lastUnreadId, isFirstLoad,
                         loading, polling, pollFirstLoad, initPc, toast, now,
                         fetches, reads, previews, fetchDone,
                 showScrollButton>>
     ELSE ImageFailed(u, "upload")

(***************************************************************************)
(* The environment: the Toast timer and the clock.                         *)
(***************************************************************************)
\* Toast's setTimeout(onClose, 2500)
ToastClose ==
  /\ toast.show
  /\ toast' = NoToast
  /\ Render(messages)
  /\ lastOp' = [kind |-> "other"]
  /\ UNCHANGED <<messages, greetings, unreadCount, lastUnreadId, isFirstLoad,
                 loading, polling, pollFirstLoad, initPc, inputValue, sending,
                 now, fetches, reads, sends, uploads,
                 previews, origin, nextUid, fetchDone,
                 showScrollButton>>

\* a millisecond passes.  A request is only made while the clock can still
\* advance (now < MaxClock), so that its response can follow it
Tick ==
  /\ now < MaxClock
  /\ now' = now + 1
  /\ lastOp' = [kind |-> "other"]
  /\ UNCHANGED <<messages, greetings, unreadCount, lastUnreadId, isFirstLoad,
                 loading, polling, pollFirstLoad, initPc, inputValue, sending,
                 toast, fetches, reads, sends, uploads,
                 previews, origin, nextUid,
                 fetchDone, observers, showScrollButton>>

Next ==
  \/ \E ok \in BOOLEAN : LoginResponse(ok)
  \/ \E ok \in BOOLEAN : KeywordsResponse(ok)
  \/ PollTick
  \/ FetchResponse
  \/ OnVisible
  \/ HandleScroll
  \/ \E id \in reads : \E ok \in BOOLEAN : ReadResponse(id, ok)
  \/ SetInput
  \/ SendText
  \/ \E s \in sends : \E ok \in BOOLEAN : SendResponse(s, ok)
  \/ HandleImageUpload
  \/ \E u \in uploads : \E ok \in BOOLEAN : SignResponse(u, ok)
  \/ \E u \in uploads : \E ok \in BOOLEAN : UploadResponse(u, ok)
  \/ ToastClose
  \/ Tick

Spec == Init /\ [][Next]_vars

(***************************************************************************)
(* The sessions the claims are checked in.                                 *)
(*  - SpecMerge: the user only watches.  Startup and polling with every    *)
(*    history batch, in both response forms, the greeting being empty.     *)
(*  - SpecPolling: the user only watches a chat that holds at most one     *)
(*    message, with and without greeting; every network call of init()     *)
(*    settles.                                                             *)
(*  - SpecSync: the user reads.  Startup, polling, scroll and visibility   *)
(*    events and read confirmations, with one history request in flight    *)
(*    at a time; in the history batches only the newest message may be     *)
(*    from the user and only the two newest may be unread.                 *)
(*  - SpecSend: the user sends.  Text and image sends under polling with   *)
(*    one history request in flight at a time; the history batches hold at *)
(*    most one message, already read and from the agent, and no greeting.  *)
(*  - SpecText: as SpecSend, with text sends only.                         *)
(*  - SpecImage: as SpecSend, with image sends only; every network call of *)
(*    the image flow settles and time passes.                              *)
(***************************************************************************)
NextMerge ==
  \/ \E ok \in BOOLEAN : LoginResponse(ok)
  \/ \E ok \in BOOLEAN : KeywordsResponse(ok)
  \/ PollTick
  \/ FetchResponseOf(Batches, {<<>>})
  \/ ToastClose

SpecMerge == Init /\ [][NextMerge]_vars

\* the history batches of a chat that holds at most one message
SingleBatches == { b \in Batches : Len(b) <= 1 }

\* the watching session of a chat that holds at most one message, when every
\* network call of init() settles: each await of init resumes
NextPolling ==
  \/ \E ok \in BOOLEAN : LoginResponse(ok)
  \/ \E ok \in BOOLEAN : KeywordsResponse(ok)
  \/ PollTick
  \/ FetchResponseOf(SingleBatches, GreetingLists)
  \/ ToastClose

StartupFairness ==
  /\ WF_vars(\E ok \in BOOLEAN : LoginResponse(ok))
  /\ WF_vars(\E ok \in BOOLEAN : KeywordsResponse(ok))
  /\ WF_vars(initPc = "history" /\ FetchResponseOf(SingleBatches, GreetingLists))

SpecPolling == Init /\ [][NextPolling]_vars /\ StartupFairness

\* the history batches of the reading session
ReadBatches ==
  { b \in Batches : /\ \A i \in 2..Len(b) : b[i].is_reply
                    /\ \A i \in 3..Len(b) : b[i].is_view }

NextSync ==
  \/ \E ok \in BOOLEAN : LoginResponse(ok)
  \/ \E ok \in BOOLEAN : KeywordsResponse(ok)
  \/ PollTickOf(1)
  \/ FetchResponseOf(ReadBatches, GreetingLists)
  \/ OnVisible
  \/ HandleScroll
  \/ \E id \in reads : \E ok \in BOOLEAN : ReadResponse(id, ok)
  \/ ToastClose

SpecSync == Init /\ [][NextSync]_vars

\* the history batches of the sending session
ShortBatches ==
  { b \in Batches : Len(b) <= 1 /\ \A i \in 1..Len(b) : b[i].is_view /\ b[i].is_reply }

NextSend ==
  \/ \E ok \in BOOLEAN : LoginResponse(ok)
  \/ \E ok \in BOOLEAN : KeywordsResponse(ok)
  \/ PollTickOf(1)
  \/ FetchResponseOf(ShortBatches, {<<>>})
  \/ SetInput
  \/ SendText
  \/ \E s \in sends : \E ok \in BOOLEAN : SendResponse(s, ok)
  \/ HandleImageUpload
  \/ \E u \in uploads : \E ok \in BOOLEAN : SignResponse(u, ok)
  \/ \E u \in uploads : \E ok \in BOOLEAN : UploadResponse(u, ok)
  \/ ToastClose
  \/ Tick

SpecSend == Init /\ [][NextSend]_vars

\* the session of a user who only sends text
NextText ==
  \/ \E ok \in BOOLEAN : LoginResponse(ok)
  \/ \E ok \in BOOLEAN : KeywordsResponse(ok)
  \/ PollTickOf(1)
  \/ FetchResponseOf(ShortBatches, {<<>>})
  \/ SetInput
  \/ SendText
  \/ \E s \in sends : \E ok \in BOOLEAN : SendResponse(s, ok)
  \/ ToastClose
  \/ Tick

SpecText == Init /\ [][NextText]_vars

\* the session of a user who only sends images, when every network call of
\* the image flow settles and time passes
NextImage ==
  \/ \E ok \in BOOLEAN : LoginResponse(ok)
  \/ \E ok \in BOOLEAN : KeywordsResponse(ok)
  \/ PollTickOf(1)
  \/ FetchResponseOf(ShortBatches, {<<>>})
  \/ HandleImageUpload
  \/ \E u \in uploads : \E ok \in BOOLEAN : SignResponse(u, ok)
  \/ \E u \in uploads : \E ok \in BOOLEAN : UploadResponse(u, ok)
  \/ \E s \in sends : \E ok \in BOOLEAN : SendResponse(s, ok)
  \/ ToastClose
  \/ Tick

ImageFairness ==
  /\ WF_vars(Tick)
  /\ WF_vars(\E u \in uploads : \E ok \in BOOLEAN : SignResponse(u, ok))
  /\ WF_vars(\E u \in uploads : \E ok \in BOOLEAN : UploadResponse(u, ok))
  /\ WF_vars(\E s \in sends : \E ok \in BOOLEAN : SendResponse(s, ok))

SpecImage == Init /\ [][NextImage]_vars /\ ImageFairness

(***************************************************************************)
(* The claims.                                                             *)
(***************************************************************************)
\* s in reverse order
Reverse(s) == [i \in 1..Len(s) |-> s[Len(s) + 1 - i]]

\* the positions of the unread inbound (agent) entries of a batch
UnreadInbound(batch) ==
  { i \in DOMAIN batch : ~batch[i].is_view /\ batch[i].is_reply }

\* the id of the first unread inbound entry of a batch in wire order, 0 if none
FirstUnreadInbound(batch) ==
  IF UnreadInbound(batch) = {} THEN 0
  ELSE batch[CHOOSE i \in UnreadInbound(batch) :
               \A j \in UnreadInbound(batch) : i <= j].id

\* the batch of the scenario: id 5 unread from the agent, id 4 read from the user
ScenarioBatch ==
  << [id |-> 5, is_reply |-> TRUE, is_view |-> FALSE],
     [id |-> 4, is_reply |-> FALSE, is_view |-> TRUE] >>

\* the optimistic message number u is in the display list
Shown(u) == \E i \in DOMAIN origin : origin[i] = u

\* the optimistic message number u is in the display list with this status
ShownWith(u, status) ==
  \E i \in DOMAIN origin : origin[i] = u /\ Status(messages[i]) = status

\* C1: an optimistic message, once appended by sendText or sendImage, is never
\* removed from the display list by any later event.
C1_OptimisticNeverRemoved == \A u \in 1..(nextUid - 1) : Shown(u)

\* C2: right after a merge the low-water-mark id is the id of the first unread
\* inbound entry of the batch in wire order, 0 if there is none; the scenario
\* batch gives the list [id4, id5], unread 1 and low-water-mark 5.
C2_LowWaterMark ==
  lastOp.kind = "merge" =>
    /\ lastUnreadId = FirstUnreadInbound(lastOp.batch)
    /\ lastOp.batch = ScenarioBatch =>
         /\ messages = << ScenarioBatch[2], ScenarioBatch[1] >>
         /\ unreadCount = 1
         /\ lastUnreadId = 5

\* C3: right after a merge the display list is the fetched batch in reverse
\* order, nothing added, dropped or duplicated.
C3_MergeReverses ==
  lastOp.kind = "merge" => messages = Reverse(lastOp.batch)

\* a merge of a batch of two messages has just happened
C3_Witness == lastOp.kind = "merge" /\ Len(lastOp.batch) >= 2

\* C4: right after a merge the unread count is the number of entries of the
\* batch with is_view = false, whatever it was before.
C4_UnreadCount ==
  lastOp.kind = "merge" =>
    unreadCount = Cardinality({ i \in DOMAIN lastOp.batch : ~lastOp.batch[i].is_view })

\* a merge of a batch with one read and one unread message has just happened
C4_Witness ==
  /\ lastOp.kind = "merge"
  /\ Len(lastOp.batch) >= 2
  /\ unreadCount = 1

\* C5: the low-water-mark id is nonzero only if the unread count is positive.
C5_LowWaterMarkOnlyWhileUnread == lastUnreadId # 0 => unreadCount > 0

\* a read confirmation has just failed while a low-water-mark is pending
C5_Witness == lastOp.kind = "readFail" /\ lastUnreadId # 0

\* C6: right after a successful markRead(id) with a nonzero id the unread count
\* and the low-water-mark id are both zero.
C6_ReadClearsAll ==
  lastOp.kind = "readOk" => unreadCount = 0 /\ lastUnreadId = 0

\* a read confirmation has just succeeded for an id other than the pending
\* low-water-mark
C6_Witness == lastOp.kind = "readOk" /\ lastOp.other

\* C7: once the response of a sendText is handled, its optimistic message has no
\* status if the send succeeded, and is failed with exactly one toast raised if
\* the send failed.
C7_SendOutcome ==
  /\ (lastOp.kind = "sendOk" /\ lastOp.img = 0) => ShownWith(lastOp.uid, NoStatus)
  /\ (lastOp.kind = "sendFail" /\ lastOp.img = 0) =>
       ShownWith(lastOp.uid, Failed) /\ lastOp.toasts = 1

\* the status of the optimistic message number u in a list with these origins
StatusOf(msgs, orig, u) ==
  Status(msgs[CHOOSE i \in DOMAIN orig : orig[i] = u])

\* C8: an optimistic message starts pending, and its status only changes from
\* pending to confirmed or from pending to failed.
C8_StatusLifecycle ==
  [][ \A j \in DOMAIN origin' :
        origin'[j] # 0 =>
          IF \E i \in DOMAIN origin : origin[i] = origin'[j]
          THEN \/ Status(messages'[j]) = StatusOf(messages, origin, origin'[j])
               \/ /\ StatusOf(messages, origin, origin'[j]) = Pending
                  /\ Status(messages'[j]) \in {NoStatus, Failed}
          ELSE Status(messages'[j]) = Pending ]_vars

\* C9: when a step of the image chain fails (credentials, upload or the
\* registering send), the optimistic image message ends failed and a toast is
\* raised.  Stated for the image message as long as it is shown, so that the
\* replacement of the list by a history merge (C1) is not what refutes it.
C9_ImageFailureMarksFailed ==
  /\ lastOp.kind = "imageFail" =>
       (Shown(lastOp.uid) => ShownWith(lastOp.uid, Failed)) /\ lastOp.toasts = 1
  /\ (lastOp.kind = "sendFail" /\ lastOp.img # 0) =>
       (Shown(lastOp.img) => ShownWith(lastOp.img, Failed)) /\ lastOp.toasts = 1

\* C10: every history request carries is_greeting = not "a fetch has completed".
C10_GreetingFlag ==
  \A i \in DOMAIN fetches : fetches[i].isGreeting = ~fetches[i].completedBefore

\* C11: a failed polling fetch raises no toast, leaves the display list, the
\* unread count and the low-water-mark as they were, and leaves the polling
\* timer running, also when the fetch before it failed as well.  (The initial
\* fetch is the only one that settles while init is at "history".)
C11_PollFailureSwallowed ==
  [][ (initPc = "done" /\ lastOp'.kind = "fetchFail") =>
        /\ toast' = toast
        /\ messages' = messages
        /\ unreadCount' = unreadCount
        /\ lastUnreadId' = lastUnreadId
        /\ polling /\ polling' ]_vars

\* a second polling fetch in a row has just failed, with unread messages shown
C11_Witness ==
  /\ lastOp.kind = "fetchFail"
  /\ lastOp.again
  /\ initPc = "done"
  /\ polling
  /\ unreadCount > 0
  /\ toast = NoToast

\* C12: when every network call of startup settles, the loading flag is
\* eventually cleared, whether login, keyword load and initial fetch succeed
\* or fail; a failed login or keyword load has raised a toast; and polling
\* runs exactly from the moment the loading flag is cleared.
C12_StartupEnds ==
  /\ <>(~loading)
  /\ [](lastOp.kind = "initFail" => toast.show /\ lastOp.toasts = 1 /\ ~loading)
  /\ [](polling <=> ~loading)

\* login or the keyword load has just failed: loading is cleared, the toast is
\* up and polling runs
C12_Witness ==
  /\ lastOp.kind = "initFail"
  /\ ~loading
  /\ polling
  /\ toast.show
  /\ ~fetchDone

\* s is empty or holds whitespace only
Blank(s) == \A i \in DOMAIN s : s[i] = " "

\* C13: a sendText whose content is empty or whitespace only (and that has no
\* image url) changes nothing: display list, input value, sending flag,
\* toast, unread count and low-water-mark stay, and no request is issued.
C13_EmptySendIsNoOp ==
  [][ (lastOp'.kind \in {"send", "sendNothing"} /\ Blank(inputValue)) =>
        UNCHANGED <<messages, inputValue, sending, toast, unreadCount,
                    lastUnreadId, greetings, sends, fetches, reads, uploads>> ]_vars

\* sendText has just been called with a whitespace-only input while a message
\* is shown
C13_Witness ==
  /\ lastOp.kind = "sendNothing"
  /\ inputValue = <<" ">>
  /\ messages # <<>>

\* C14: a sendImage with a file of more than 2 * 1024 * 1024 bytes raises
\* exactly one toast, adds no optimistic message and issues no request; a
\* file of 2 * 1024 * 1024 bytes or less is not rejected: its optimistic
\* message is appended and the credential request is issued.
C14_OversizedImageRejected ==
  [][ lastOp'.kind \in {"image", "imageRejected"} =>
        IF lastOp'.size > 2 * 1024 * 1024
        THEN /\ lastOp'.kind = "imageRejected"
             /\ lastOp'.toasts = 1
             /\ toast'.show
             /\ UNCHANGED <<messages, uploads, sends, fetches, reads>>
        ELSE /\ lastOp'.kind = "image"
             /\ Len(messages') = Len(messages) + 1
             /\ Status(messages'[Len(messages')]) = Pending
             /\ Cardinality(uploads') = Cardinality(uploads) + 1
             /\ toast' = toast ]_vars

\* a file of one byte more than 2 MiB has just been rejected while a message
\* is shown
C14_Witness ==
  /\ lastOp.kind = "imageRejected"
  /\ lastOp.size = 2 * 1024 * 1024 + 1
  /\ toast.show
  /\ messages # <<>>

\* the image flows still running: waiting for the credentials, for the upload
\* or for the registering send
RunningFlows == { u.uid : u \in uploads } \cup ({ s.img : s \in sends } \ {0})

\* the image flow whose preview URL the last step released, 0 if it released none
Released ==
  IF lastOp.kind = "imageFail" /\ lastOp.revoked THEN lastOp.uid
  ELSE IF lastOp.kind \in {"sendOk", "sendFail"} /\ lastOp.revoked THEN lastOp.img
  ELSE 0

\* C15: every preview URL created by sendImage is eventually released, when
\* its flow ends and not before, and is released once: the step that ends the
\* flow (failed credentials, failed upload, failed or successful registering
\* send) releases a URL that was still held.
C15_PreviewReleased ==
  /\ \A u \in 1..(MaxLocal + 1) : (u \in previews) ~> (u \notin previews)
  /\ [](previews = RunningFlows)
  /\ [][ Released' # 0 =>
           Released' \in previews /\ Released' \notin previews' ]_vars
  /\ [][ \A u \in previews \ previews' : Released' = u ]_vars

\* the registering send of an image has just succeeded: the flow is over and
\* its preview URL is released
C15_Witness ==
  /\ lastOp.kind = "sendOk"
  /\ lastOp.img # 0
  /\ lastOp.revoked
  /\ lastOp.img \notin previews
  /\ previews = {}

\* C16: a history response write-replaces the display list, the unread count
\* and the low-water-mark when it resolves, so with two fetches in flight the
\* state right after the later response is the one computed from that response
\* alone, also when its request was the one issued first.
C16_LastResponseWins ==
  lastOp.kind = "merge" =>
    /\ messages = Reverse(lastOp.batch)
    /\ unreadCount = ProcessMessages(lastOp.batch).unread
    /\ lastUnreadId = ProcessMessages(lastOp.batch).lastUnread

\* the response of the request issued first has just been merged after the
\* response of the request issued second, and shows its one unread message
C16_Witness ==
  /\ lastOp.kind = "merge"
  /\ lastOp.late
  /\ fetches = <<>>
  /\ Len(lastOp.batch) = 1
  /\ unreadCount = 1

\* C17: a merge scrolls to the bottom only when it is the merge of the initial
\* fetch and the batch has no unread message; the merge of a polling fetch
\* never scrolls, also in a session whose login or initial fetch failed.
C17_ScrollOnlyOnFirstLoad ==
  (lastOp.kind = "merge" /\ lastOp.scrolled) =>
    lastOp.initial /\ unreadCount = 0

\* C18: a read confirmation is requested on visibility only for a message
\* that is inbound (is_reply) and not yet read (not is_view).
C18_VisibleOnlyInboundUnread ==
  lastOp.kind = "visible" => lastOp.is_reply /\ ~lastOp.is_view

\* C19: the visibility notification of a message fires at most once while
\* the message is shown unread, across polls, renders and list replacements.
\* Stated for inbound messages, so that the notification of an outbound
\* message (C18) is not what refutes it.
C19_VisibleAtMostOnce ==
  (lastOp.kind = "visible" /\ lastOp.is_reply) => ~lastOp.again

\* C20: the greeting list is written only by the merge of the initial fetch,
\* and only when its response is the object form with a non-empty greeting;
\* no polling fetch changes it, whatever the form of its response; greeting
\* entries never appear in the display list; every stored greeting entry has
\* is_reply and is_view set.
C20_GreetingOnlyInitial ==
  /\ [][ greetings' # greetings =>
           /\ lastOp'.kind = "merge"
           /\ lastOp'.initial
           /\ lastOp'.greeting > 0 ]_vars
  /\ [](\A i \in DOMAIN greetings : greetings[i].is_reply /\ greetings[i].is_view)
  /\ [](\A i \in DOMAIN messages : \A j \in DOMAIN greetings :
          messages[i].id # greetings[j].id)

\* a polling fetch has just returned the object form with a greeting, in a
\* session that has stored no greeting: nothing is stored
C20_Witness ==
  /\ lastOp.kind = "merge"
  /\ ~lastOp.initial
  /\ lastOp.greeting > 0
  /\ initPc = "done"
  /\ greetings = <<>>

====
